---------------------------- MODULE Spec2Model ----------------------------
(***************************************************************************)
(* git-sentinel: a directory watcher (sentinel_cli.py) that scans created  *)
(* or modified files for secrets and, on a hit, runs a two-node workflow   *)
(* (sentinel_agent.py) whose tools (sentinel_tools.py) rename the file to   *)
(* a quarantine name, patch the directory's .gitignore and write a report. *)
(*                                                                         *)
(* Strings are sequences of tokens: a filename "a.env.__quarantined__" is  *)
(* <<"a", ".env", ".__quarantined__">>, the text of .gitignore is the      *)
(* sequence of its tokens, newlines included, so that Python's substring   *)
(* test `r in content` is the contiguous-subsequence test below.           *)
(* A path is [parts |-> its directories, name |-> its filename].           *)
(* The filesystem follows POSIX: os.rename replaces an existing target,    *)
(* and creating or renaming a directory entry needs a writable directory.  *)
(***************************************************************************)
EXTENDS Integers, Sequences, FiniteSets, TLC

(* ----------------------------- bounds --------------------------------- *)

\* external filesystem operations (writes, deletes, chmod) in one behaviour
MaxEnv == 2

\* direct tool invocations in one behaviour of ToolSpec
MaxCalls == 3

\* longest list of tool calls the oracle returns
MaxDirective == 2

\* longest scanned content, in tokens
MaxContent == 4

(* ------------------------- program constants -------------------------- *)

QUARANTINE_SUFFIX == ".__quarantined__"

REMEDIATION_PREFIX == "REMEDIATION_"

IGNORE_SUFFIX == ".__quarantined__"

SAFE_EXTENSIONS ==
    {".py", ".js", ".ts", ".txt", ".md", ".json", ".csv", ".env", ".sh",
     ".yml", ".yaml", ".pem", ".key"}

\* PATTERNS, in dict order; a content token stands for one regex match
PATTERNS ==
    << [name |-> "AWS Access Key",    token |-> "AKIA20"],
       [name |-> "OpenAI Secret Key", token |-> "sk-32"],
       [name |-> "Private Key",       token |-> "BEGIN PRIVATE KEY"],
       [name |-> "Mass PII (Emails)", token |-> "email"] >>

\* tools_map: the names of the two registered tools
tools_map == {"quarantine_file", "write_remediation_report"}

GITIGNORE == <<".gitignore">>

HEADER == "# --- SECURITY SENTINEL RULES ---"

NL == "\n"

\* rules = [f"*{QUARANTINE_SUFFIX}", f"{REMEDIATION_PREFIX}*.md"]
rules == << <<"*", QUARANTINE_SUFFIX>>, <<REMEDIATION_PREFIX, "*", ".md">> >>

\* the result strings of the tools
NOT_FOUND == "File not found."

FAILED_MOVE == "Failed to move file: OSError"

QUARANTINED == "File quarantined and .gitignore updated."

REPORTED == "Report generated."

\* a tool call that raised instead of returning
RAISED == "raise PermissionError"

(* ----------------------------- strings -------------------------------- *)

Range(s) == {s[i] : i \in 1..Len(s)}

\* Python's `sub in s`
Contains(s, sub) ==
    \E i \in 0..(Len(s) - Len(sub)) : SubSeq(s, i + 1, i + Len(sub)) = sub

\* how many times `sub` occurs in s
Occurrences(s, sub) ==
    Cardinality({i \in 0..(Len(s) - Len(sub)) : SubSeq(s, i + 1, i + Len(sub)) = sub})

\* str.endswith for a one-token suffix
EndsWith(name, suffix) == Len(name) > 0 /\ name[Len(name)] = suffix

\* tokens that begin with a dot and hold no other dot
DotTokens == SAFE_EXTENSIONS \cup {".bin", QUARANTINE_SUFFIX}

\* pathlib's Path.suffix: the last dot-component, "" for a leading-dot name
PathSuffix(name) ==
    IF Len(name) > 1 /\ name[Len(name)] \in DotTokens THEN name[Len(name)] ELSE ""

(* ------------------------------ paths --------------------------------- *)

ROOT == <<"repo">>

Path(parts, name) == [parts |-> parts, name |-> name]

\* path.with_name(f"{path.name}{QUARANTINE_SUFFIX}")
QuarantinedPath(p) == Path(p.parts, p.name \o <<QUARANTINE_SUFFIX>>)

\* path.parent / ".gitignore"
GitignorePath(p) == Path(p.parts, GITIGNORE)

\* path.parent / f"{REMEDIATION_PREFIX}{path.name}.md"
ReportPath(p) == Path(p.parts, <<REMEDIATION_PREFIX>> \o p.name \o <<".md">>)

\* what the outside world writes, and where
EnvInputs ==
    { <<Path(ROOT, <<"a", ".env">>), <<"AKIA20">>>>,
      <<Path(ROOT, <<"b", ".csv">>), <<"email", "email">>>>,
      <<Path(ROOT, <<"b", ".csv">>), <<"email", "email", "email">>>>,
      <<Path(ROOT \o <<".git">>, <<"d", ".json">>), <<"AKIA20">>>> }

\* the .gitignore an earlier quarantine wrote into a directory that had none
PatchedManifest ==
    <<NL, NL, HEADER, NL, "*", QUARANTINE_SUFFIX, NL, REMEDIATION_PREFIX, "*", ".md", NL>>

\* the .gitignore of the watched directory when watching begins
InitialManifests ==
    { <<>>,
      <<"node_modules">>,
      <<"node_modules", NL>>,
      <<"*", QUARANTINE_SUFFIX, NL>>,
      <<"!", "*", QUARANTINE_SUFFIX, NL, "docs", REMEDIATION_PREFIX, "*", ".md">>,
      PatchedManifest }


(* ------------------------------ state --------------------------------- *)

VARIABLES
    fs,          \* the file tree: existing path |-> content
    dirWritable, \* whether directory entries can be created or renamed
    pending,     \* paths with an undelivered created/modified event
    envSteps,    \* external filesystem operations so far
    pc,          \* thread |-> where it stands
    qpath,       \* thread |-> file_path of its quarantine_file call
    qread,       \* thread |-> current_content read by that call
    qres,        \* thread |-> what its last tool call returned
    cur,         \* file_path of the scan, then of the remediation run
    threat,      \* detected_threat / state["threat_type"]
    tool_calls,  \* state["tool_calls"]
    idx,         \* position of execute_mitigation's loop
    results,     \* execute_mitigation's results list
    wf,          \* state of the current (or last) workflow run
    analysis,    \* what process_threat_event returned
    calls,       \* ToolSpec: completed direct calls, in order of return
    solo,        \* ToolSpec: thread |-> no other call overlapped its call
    before       \* ToolSpec: thread |-> the file tree when its call began

fsVars == <<fs, dirWritable, pending, envSteps>>

qVars == <<qpath, qread, qres>>

runVars == <<cur, threat, tool_calls, idx, results, wf, analysis>>

toolVars == <<calls, solo, before>>

vars ==
    <<fs, dirWritable, pending, envSteps, pc, qpath, qread, qres, cur, threat,
      tool_calls, idx, results, wf, analysis, calls, solo, before>>

\* the watchdog observer's dispatch thread, and a second caller of the tools
Threads == {"ctl", "aux"}

NoPath == Path(<<>>, <<>>)

NoAnalysis == [kind |-> "none", n |-> 0, error |-> ""]

\* f"Executed {len(results)} mitigation steps."
Executed(n) == [kind |-> "Executed", n |-> n, error |-> ""]

\* f"Agent Crash: {str(e)}": the string holds no count
AgentCrash(e) == [kind |-> "Agent Crash", n |-> 0, error |-> e]

Remove(files, p) == [q \in (DOMAIN files) \ {p} |-> files[q]]

Put(files, p, content) == (p :> content) @@ files

\* no thread is in a call, no run exists, nothing has been done yet
InitRest ==
    /\ envSteps = 0
    /\ pc = [t \in Threads |-> "idle"]
    /\ qpath = [t \in Threads |-> NoPath]
    /\ qread = [t \in Threads |-> <<>>]
    /\ qres = [t \in Threads |-> ""]
    /\ cur = NoPath
    /\ threat = ""
    /\ tool_calls = <<>>
    /\ idx = 1
    /\ results = <<>>
    /\ wf = "Idle"
    /\ analysis = NoAnalysis
    /\ calls = <<>>
    /\ solo = [t \in Threads |-> TRUE]
    /\ before = [t \in Threads |-> <<>>]

InitCommon == pending = {} /\ InitRest

\* watching begins on a tree with no .gitignore or with the user's own
Init ==
    /\ InitCommon
    /\ dirWritable = TRUE
    /\ \/ fs = <<>>
       \/ fs = (Path(ROOT, GITIGNORE) :> <<"node_modules">>)

(* ------------------------- the outside world -------------------------- *)

\* a user or tool writes a file; the watch source reports created/modified
EnvWrite(p, c) ==
    /\ envSteps < MaxEnv
    /\ fs' = Put(fs, p, c)
    /\ pending' = pending \cup {p}
    /\ envSteps' = envSteps + 1
    /\ UNCHANGED <<dirWritable, pc, qVars, runVars, toolVars>>

\* a user or tool deletes a file; on_deleted is not handled
EnvDelete(p) ==
    /\ envSteps < MaxEnv
    /\ p \in DOMAIN fs
    /\ fs' = Remove(fs, p)
    /\ envSteps' = envSteps + 1
    /\ UNCHANGED <<dirWritable, pending, pc, qVars, runVars, toolVars>>

\* the directories become read-only, or writable again
EnvChmod ==
    /\ envSteps < MaxEnv
    /\ dirWritable' = ~dirWritable
    /\ envSteps' = envSteps + 1
    /\ UNCHANGED <<fs, pending, pc, qVars, runVars, toolVars>>

Env ==
    \/ \E in \in EnvInputs : EnvWrite(in[1], in[2])
    \/ \E in \in EnvInputs : EnvDelete(in[1])
    \/ EnvChmod

(* ----------------------------- Event Gate ----------------------------- *)

\* the gate without its existence check
AdmitNoExists(p, files) ==
    /\ ~EndsWith(p.name, IGNORE_SUFFIX)
    /\ ~(REMEDIATION_PREFIX \in Range(p.name))
    /\ ~(".git" \in Range(p.parts) \/ p.name = <<".git">>)
    /\ PathSuffix(p.name) \in SAFE_EXTENSIONS

\* the gate without its suffix filter, testing the allow-list against any
\* dot-component of the name (Path.suffixes) instead of the last one
AdmitAnySuffix(p, files) ==
    /\ ~(REMEDIATION_PREFIX \in Range(p.name))
    /\ ~(".git" \in Range(p.parts) \/ p.name = <<".git">>)
    /\ p \in DOMAIN files
    /\ \E k \in 2..Len(p.name) : p.name[k] \in SAFE_EXTENSIONS

\* the gate without its REMEDIATION_ filter
AdmitReports(p, files) ==
    /\ ~EndsWith(p.name, IGNORE_SUFFIX)
    /\ ~(".git" \in Range(p.parts) \/ p.name = <<".git">>)
    /\ p \in DOMAIN files
    /\ PathSuffix(p.name) \in SAFE_EXTENSIONS

\* scan_file's filters: TRUE when the content scan is reached
Admit(p, files) ==
    /\ ~EndsWith(p.name, IGNORE_SUFFIX)
    /\ ~(REMEDIATION_PREFIX \in Range(p.name))
    /\ ~(".git" \in Range(p.parts) \/ p.name = <<".git">>)
    /\ p \in DOMAIN files
    /\ PathSuffix(p.name) \in SAFE_EXTENSIONS

(* -------------------------- Signature Engine -------------------------- *)

\* len(re.findall(pattern, content))
Matches(i, content) == Cardinality({k \in 1..Len(content) : content[k] = PATTERNS[i].token})

\* the loop with the bulk threshold at two occurrences
FiresAtTwo(i, content) ==
    /\ ~(PATTERNS[i].name = "Mass PII (Emails)" /\ Matches(i, content) < 2)
    /\ Matches(i, content) > 0

\* whether the loop breaks at the i-th pattern
Fires(i, content) ==
    /\ ~(PATTERNS[i].name = "Mass PII (Emails)" /\ Matches(i, content) < 3)
    /\ Matches(i, content) > 0

\* a loop without its break: the last pattern that fires wins
DetectThreatLast(content) ==
    IF \E i \in 1..Len(PATTERNS) : Fires(i, content)
    THEN LET last == CHOOSE i \in 1..Len(PATTERNS) :
                         /\ Fires(i, content)
                         /\ \A j \in (i + 1)..Len(PATTERNS) : ~Fires(j, content)
         IN  PATTERNS[last].name
    ELSE ""

\* detected_threat, "" for None
DetectThreat(content) ==
    IF \E i \in 1..Len(PATTERNS) : Fires(i, content)
    THEN LET first == CHOOSE i \in 1..Len(PATTERNS) :
                          /\ Fires(i, content)
                          /\ \A j \in 1..(i - 1) : ~Fires(j, content)
         IN  PATTERNS[first].name
    ELSE ""

(* --------------------------- quarantine_file -------------------------- *)

\* a rename done as a copy: the source is left in place
RenameCopies(files, src, dst) == Put(files, dst, files[src])

\* os.rename(src, dst) on the file tree: dst is replaced when it exists
Rename(files, src, dst) == Put(Remove(files, src), dst, files[src])

\* the patch without its membership test: every rule counts as missing
MissingRulesAll(content) == rules

\* missing_rules = [r for r in rules if r not in current_content]
MissingRules(content) ==
    LET keep(r) == IF Contains(content, r) THEN <<>> ELSE <<r>>
    IN  keep(rules[1]) \o keep(rules[2])

\* what the `with open(gitignore_path, "a")` block writes
PatchText(missing) ==
    LET line(i) == IF i <= Len(missing) THEN missing[i] \o <<NL>> ELSE <<>>
    IN  <<NL, NL, HEADER, NL>> \o line(1) \o line(2)

\* an existence check that seals the directory before it gives up
QCheckSeals(t) ==
    LET gi == GitignorePath(qpath[t])
        old == IF gi \in DOMAIN fs THEN fs[gi] ELSE <<>>
    IN  /\ pc[t] = "q_check"
        /\ IF qpath[t] \in DOMAIN fs
           THEN /\ pc' = [pc EXCEPT ![t] = "q_rename"]
                /\ UNCHANGED <<qres, fs>>
           ELSE /\ pc' = [pc EXCEPT ![t] = "q_ret"]
                /\ qres' = [qres EXCEPT ![t] = NOT_FOUND]
                /\ fs' = Put(fs, gi, old \o PatchText(rules))
        /\ UNCHANGED <<dirWritable, pending, envSteps, qpath, qread, runVars, toolVars>>

\* path = Path(file_path); if not path.exists(): return "File not found."
QCheck(t) ==
    /\ pc[t] = "q_check"
    /\ IF qpath[t] \in DOMAIN fs
       THEN /\ pc' = [pc EXCEPT ![t] = "q_rename"]
            /\ UNCHANGED qres
       ELSE /\ pc' = [pc EXCEPT ![t] = "q_ret"]
            /\ qres' = [qres EXCEPT ![t] = NOT_FOUND]
    /\ UNCHANGED <<fsVars, qpath, qread, runVars, toolVars>>

\* os.rename(path, quarantined_path), OSError caught; a watch source that does
\* not pair the two halves of a move reports the new name as created
QRename(t) ==
    /\ pc[t] = "q_rename"
    /\ IF qpath[t] \in DOMAIN fs /\ dirWritable
       THEN /\ fs' = Rename(fs, qpath[t], QuarantinedPath(qpath[t]))
            /\ pending' = pending \cup {QuarantinedPath(qpath[t])}
            /\ pc' = [pc EXCEPT ![t] = "q_read"]
            /\ UNCHANGED qres
       ELSE /\ pc' = [pc EXCEPT ![t] = "q_ret"]
            /\ qres' = [qres EXCEPT ![t] = FAILED_MOVE]
            /\ UNCHANGED <<fs, pending>>
    /\ UNCHANGED <<dirWritable, envSteps, qpath, qread, runVars, toolVars>>

\* current_content = gitignore_path.read_text() if it exists, else ""
QRead(t) ==
    /\ pc[t] = "q_read"
    /\ qread' = [qread EXCEPT ![t] =
                    IF GitignorePath(qpath[t]) \in DOMAIN fs
                    THEN fs[GitignorePath(qpath[t])] ELSE <<>>]
    /\ pc' = [pc EXCEPT ![t] = "q_patch"]
    /\ UNCHANGED <<fsVars, qpath, qres, runVars, toolVars>>

\* if missing_rules: append the header and the missing rules; return
QPatch(t) ==
    LET gi == GitignorePath(qpath[t])
        missing == MissingRules(qread[t])
        old == IF gi \in DOMAIN fs THEN fs[gi] ELSE <<>>
    IN  /\ pc[t] = "q_patch"
        /\ pc' = [pc EXCEPT ![t] = "q_ret"]
        /\ IF missing = <<>>
           THEN /\ qres' = [qres EXCEPT ![t] = QUARANTINED]
                /\ UNCHANGED <<fs, pending>>
           ELSE IF gi \notin DOMAIN fs /\ ~dirWritable
           THEN /\ qres' = [qres EXCEPT ![t] = RAISED]
                /\ UNCHANGED <<fs, pending>>
           ELSE /\ fs' = Put(fs, gi, old \o PatchText(missing))
                /\ pending' = pending \cup {gi}
                /\ qres' = [qres EXCEPT ![t] = QUARANTINED]
        /\ UNCHANGED <<dirWritable, envSteps, qpath, qread, runVars, toolVars>>

QuarantineStep(t) == QCheck(t) \/ QRename(t) \/ QRead(t) \/ QPatch(t)

(* ---------------------- write_remediation_report ---------------------- *)

\* a report that names neither the threat nor the quarantined file
ReportTextBare(p, threat_type, advice) ==
    <<"# Security Intervention:", "File:">> \o p.name \o <<"Why was this blocked?", advice>>

\* the f-string of the report, one token per interpolated piece
ReportText(p, threat_type, advice) ==
    <<"# Security Intervention:", threat_type, "File:">> \o p.name
    \o <<"Why was this blocked?", advice, "cat">> \o p.name \o <<QUARANTINE_SUFFIX>>
    \o <<"mv">> \o p.name \o <<QUARANTINE_SUFFIX>> \o p.name

\* report_path.write_text(content) can create or overwrite the report
CanWrite(p, files, writable) == p \in DOMAIN files \/ writable

(* ------------------------------ scan_file ----------------------------- *)

\* on_created / on_modified: the observer thread takes an event of a file and
\* calls scan_file(Path(event.src_path))
Dispatch(p) ==
    /\ pc["ctl"] = "idle"
    /\ p \in pending
    /\ pending' = pending \ {p}
    /\ pc' = [pc EXCEPT !["ctl"] = "gate"]
    /\ cur' = p
    /\ UNCHANGED <<fs, dirWritable, envSteps, qVars, threat, tool_calls, idx, results,
                   wf, analysis, toolVars>>

\* scan_file: the quick filters, exists() and the extension check
Gate ==
    /\ pc["ctl"] = "gate"
    /\ IF Admit(cur, fs)
       THEN /\ pc' = [pc EXCEPT !["ctl"] = "scan"]
            /\ UNCHANGED cur
       ELSE /\ pc' = [pc EXCEPT !["ctl"] = "idle"]
            /\ cur' = NoPath
    /\ UNCHANGED <<fsVars, qVars, threat, tool_calls, idx, results, wf, analysis, toolVars>>

\* a scan whose read is not guarded: the exception ends the observer thread
ScanUnguarded ==
    /\ pc["ctl"] = "scan"
    /\ IF cur \notin DOMAIN fs
       THEN /\ pc' = [pc EXCEPT !["ctl"] = "dead"]
            /\ UNCHANGED <<threat, wf, results, tool_calls, idx, analysis>>
       ELSE IF DetectThreat(fs[cur]) = ""
       THEN /\ pc' = [pc EXCEPT !["ctl"] = "idle"]
            /\ UNCHANGED <<threat, wf, results, tool_calls, idx, analysis>>
       ELSE /\ pc' = [pc EXCEPT !["ctl"] = "analyze"]
            /\ threat' = DetectThreat(fs[cur])
            /\ wf' = "Analyzing"
            /\ results' = <<>>
            /\ tool_calls' = <<>>
            /\ idx' = 1
            /\ UNCHANGED analysis
    /\ cur' = IF pc'["ctl"] = "idle" THEN NoPath ELSE cur
    /\ UNCHANGED <<fsVars, qVars, toolVars>>

\* read_text, the loop over PATTERNS, and trigger_agent up to the oracle call;
\* a read that fails is caught and the candidate dropped
Scan ==
    /\ pc["ctl"] = "scan"
    /\ IF cur \notin DOMAIN fs
       THEN /\ pc' = [pc EXCEPT !["ctl"] = "idle"]
            /\ UNCHANGED <<threat, wf, results, tool_calls, idx, analysis>>
       ELSE IF DetectThreat(fs[cur]) = ""
       THEN /\ pc' = [pc EXCEPT !["ctl"] = "idle"]
            /\ UNCHANGED <<threat, wf, results, tool_calls, idx, analysis>>
       ELSE /\ pc' = [pc EXCEPT !["ctl"] = "analyze"]
            /\ threat' = DetectThreat(fs[cur])
            /\ wf' = "Analyzing"
            /\ results' = <<>>
            /\ tool_calls' = <<>>
            /\ idx' = 1
            /\ UNCHANGED analysis
    /\ cur' = IF pc'["ctl"] = "idle" THEN NoPath ELSE cur
    /\ UNCHANGED <<fsVars, qVars, toolVars>>

(* ------------------------- the workflow graph ------------------------- *)

\* the tool calls the oracle may return for a request: either tool, or a tool
\* that is not registered, on the reported path
Entries(p) ==
    {[name |-> n, file_path |-> p] : n \in tools_map \cup {"delete_file"}}

Directives(p) ==
    UNION {[1..n -> Entries(p)] : n \in 0..MaxDirective}

\* analyze_threat: response = llm_with_tools.invoke(msg) returns
AnalyzeOk(d) ==
    /\ pc["ctl"] = "analyze"
    /\ tool_calls' = d
    /\ idx' = 1
    /\ results' = <<>>
    /\ wf' = "Executing"
    /\ pc' = [pc EXCEPT !["ctl"] = "execute"]
    /\ UNCHANGED <<fsVars, qVars, cur, threat, analysis, toolVars>>

\* a run that starts over instead of ending
ReturnRetries(a) ==
    /\ analysis' = a
    /\ wf' = "Analyzing"
    /\ pc' = [pc EXCEPT !["ctl"] = "analyze"]
    /\ tool_calls' = <<>>
    /\ idx' = 1
    /\ results' = <<>>
    /\ qpath' = [qpath EXCEPT !["ctl"] = NoPath]
    /\ qread' = [qread EXCEPT !["ctl"] = <<>>]
    /\ qres' = [qres EXCEPT !["ctl"] = ""]
    /\ UNCHANGED <<cur, threat>>

\* process_threat_event returns to trigger_agent: the run's AgentState and the
\* locals of its frames are gone, only the returned analysis is left
Return(a) ==
    /\ analysis' = a
    /\ wf' = "Done"
    /\ pc' = [pc EXCEPT !["ctl"] = "returned"]
    /\ cur' = NoPath
    /\ threat' = ""
    /\ tool_calls' = <<>>
    /\ idx' = 1
    /\ results' = <<>>
    /\ qpath' = [qpath EXCEPT !["ctl"] = NoPath]
    /\ qread' = [qread EXCEPT !["ctl"] = <<>>]
    /\ qres' = [qres EXCEPT !["ctl"] = ""]

\* the run ends in process_threat_event's except branch
Crash(e) == Return(AgentCrash(e))

\* an oracle failure answered by quarantining the file anyway
AnalyzeFailQuarantines ==
    /\ pc["ctl"] = "analyze"
    /\ Return(AgentCrash("oracle"))
    /\ fs' = IF cur \in DOMAIN fs THEN Rename(fs, cur, QuarantinedPath(cur)) ELSE fs
    /\ UNCHANGED <<dirWritable, pending, envSteps, toolVars>>

\* analyze_threat: the oracle call raises
AnalyzeFail ==
    /\ pc["ctl"] = "analyze"
    /\ Crash("oracle")
    /\ UNCHANGED <<fsVars, toolVars>>

\* execute_mitigation: tools_map.get(tool_name) is None, so None.invoke raises
ExecUnknown ==
    /\ pc["ctl"] = "execute"
    /\ idx <= Len(tool_calls)
    /\ tool_calls[idx].name \notin tools_map
    /\ Crash("AttributeError")
    /\ UNCHANGED <<fsVars, toolVars>>

\* execute_mitigation: tool_func.invoke(args) enters quarantine_file
ExecQuarantine ==
    /\ pc["ctl"] = "execute"
    /\ idx <= Len(tool_calls)
    /\ tool_calls[idx].name = "quarantine_file"
    /\ qpath' = [qpath EXCEPT !["ctl"] = tool_calls[idx].file_path]
    /\ pc' = [pc EXCEPT !["ctl"] = "q_check"]
    /\ UNCHANGED <<fsVars, qread, qres, cur, threat, tool_calls, idx, results, wf,
                   analysis, toolVars>>

\* execute_mitigation: quarantine_file returned (results.append) or raised
ExecReturn ==
    /\ pc["ctl"] = "q_ret"
    /\ IF qres["ctl"] = RAISED
       THEN Crash("PermissionError")
       ELSE /\ results' = Append(results, qres["ctl"])
            /\ idx' = idx + 1
            /\ pc' = [pc EXCEPT !["ctl"] = "execute"]
            /\ UNCHANGED <<qVars, cur, threat, tool_calls, wf, analysis>>
    /\ UNCHANGED <<fsVars, toolVars>>

\* execute_mitigation: tool_func.invoke(args) runs write_remediation_report
ExecReport ==
    LET p == tool_calls[idx].file_path
    IN  /\ pc["ctl"] = "execute"
        /\ idx <= Len(tool_calls)
        /\ tool_calls[idx].name = "write_remediation_report"
            /\ IF CanWrite(ReportPath(p), fs, dirWritable)
           THEN /\ fs' = Put(fs, ReportPath(p), ReportText(p, threat, "advice"))
                /\ pending' = pending \cup {ReportPath(p)}
                /\ results' = Append(results, REPORTED)
                /\ idx' = idx + 1
                /\ UNCHANGED <<pc, qVars, cur, threat, tool_calls, wf, analysis>>
           ELSE /\ Crash("PermissionError")
                /\ UNCHANGED <<fs, pending>>
        /\ UNCHANGED <<dirWritable, envSteps, toolVars>>

\* execute_mitigation returns; the graph reaches END
ExecFinish ==
    /\ pc["ctl"] = "execute"
    /\ idx > Len(tool_calls)
    /\ Return(Executed(Len(results)))
    /\ UNCHANGED <<fsVars, toolVars>>

\* trigger_agent prints result.get('analysis') and returns to the observer
Neutralized ==
    /\ pc["ctl"] = "returned"
    /\ pc' = [pc EXCEPT !["ctl"] = "idle"]
    /\ analysis' = NoAnalysis
    /\ wf' = "Idle"
    /\ UNCHANGED <<fsVars, qVars, cur, threat, tool_calls, idx, results, toolVars>>

(* ------------------------------ the watcher --------------------------- *)

Controller ==
    \/ \E p \in pending : Dispatch(p)
    \/ Gate
    \/ Scan
    \/ \E d \in Directives(cur) : AnalyzeOk(d)
    \/ AnalyzeFail
    \/ ExecUnknown
    \/ ExecQuarantine
    \/ QuarantineStep("ctl")
    \/ ExecReturn
    \/ ExecReport
    \/ ExecFinish
    \/ Neutralized

Next == Env \/ Controller

Spec == Init /\ [][Next]_vars

\* the observer thread is never starved: every call it makes returns or raises
FairSpec == Spec /\ WF_vars(Controller)

(* -------------------- the tools, called directly ---------------------- *)

\* the paths quarantine_file is called with
CallPaths ==
    { Path(ROOT, <<"a", ".env">>),
      Path(ROOT, <<"b", ".csv">>),
      QuarantinedPath(Path(ROOT, <<"a", ".env">>)) }

\* two files with secrets in a directory, writable or not, with no
\* .gitignore or one of InitialManifests
InitTools ==
    /\ InitCommon
    /\ dirWritable \in BOOLEAN
    /\ \E m \in InitialManifests \cup {<<"absent">>} :
          LET files == (Path(ROOT, <<"a", ".env">>) :> <<"AKIA20">>)
                       @@ (Path(ROOT, <<"b", ".csv">>) :> <<"email", "email", "email">>)
          IN  fs = IF m = <<"absent">> THEN files ELSE Put(files, Path(ROOT, GITIGNORE), m)

Busy == {t \in Threads : pc[t] # "idle"}

\* quarantine_file(file_path) is entered by thread t
ToolCall(t, p) ==
    /\ pc[t] = "idle"
    /\ Len(calls) + Cardinality(Busy) < MaxCalls
    /\ pc' = [pc EXCEPT ![t] = "q_check"]
    /\ qpath' = [qpath EXCEPT ![t] = p]
    /\ before' = [before EXCEPT ![t] = fs]
    /\ solo' = [u \in Threads |-> IF Busy = {} THEN (IF u = t THEN TRUE ELSE solo[u])
                                  ELSE (IF u \in Busy \cup {t} THEN FALSE ELSE solo[u])]
    /\ UNCHANGED <<fsVars, qread, qres, runVars, calls>>

\* quarantine_file returns (or raises) to its caller
ToolReturn(t) ==
    /\ pc[t] = "q_ret"
    /\ calls' = Append(calls, [path |-> qpath[t], res |-> qres[t], solo |-> solo[t],
                               before |-> before[t], after |-> fs])
    /\ pc' = [pc EXCEPT ![t] = "idle"]
    /\ qpath' = [qpath EXCEPT ![t] = NoPath]
    /\ qread' = [qread EXCEPT ![t] = <<>>]
    /\ qres' = [qres EXCEPT ![t] = ""]
    /\ before' = [before EXCEPT ![t] = <<>>]
    /\ UNCHANGED <<fsVars, runVars, solo>>

NextTools ==
    \/ \E t \in Threads, p \in CallPaths : ToolCall(t, p)
    \/ \E t \in Threads : QuarantineStep(t)
    \/ \E t \in Threads : ToolReturn(t)

ToolSpec == InitTools /\ [][NextTools]_vars

(* ======================= properties of the tools ====================== *)

RootManifest == Path(ROOT, GITIGNORE)

\* the text of the directory's .gitignore in a file tree, "" when there is none
ManifestOf(files) == IF RootManifest \in DOMAIN files THEN files[RootManifest] ELSE <<>>

\* the files of a tree other than its .gitignore
FileSet(files) == (DOMAIN files) \ {RootManifest}

\* calls i and i+1 ran one after the other, nothing else in between, on the
\* same path, and call i found the file and quarantined it
Twice(i) ==
    /\ i + 1 <= Len(calls)
    /\ calls[i].solo /\ calls[i + 1].solo
    /\ calls[i].path = calls[i + 1].path
    /\ calls[i].path \in DOMAIN calls[i].before
    /\ calls[i].res = QUARANTINED

\* C1 as stated: quarantining the same original path twice in sequence leaves
\* exactly one marker file and the second call returns the success result.
C1_SecondCallSucceeds ==
    \A i \in 1..Len(calls) :
        Twice(i) =>
            /\ QuarantinedPath(calls[i].path) \in DOMAIN calls[i + 1].after
            /\ calls[i + 1].res = QUARANTINED

\* C1 amended: quarantining the same original path twice in sequence leaves
\* exactly one marker file (the original path is gone, its quarantined name
\* exists); the second call changes nothing and returns "File not found.".
C1_SecondCallNotFound ==
    \A i \in 1..Len(calls) :
        Twice(i) =>
            /\ QuarantinedPath(calls[i].path) \in DOMAIN calls[i + 1].after
            /\ calls[i].path \notin DOMAIN calls[i + 1].after
            /\ calls[i + 1].after = calls[i].after
            /\ calls[i + 1].res = NOT_FOUND

C1_Witness == \E i \in 1..Len(calls) : Twice(i)

\* C2 as stated: quarantine_file on an existing path whose name already ends
\* with the quarantine suffix is a no-op success: the file is not renamed
\* again and the directory's file set is unchanged.
C2_MarkedFileIsNoOp ==
    \A i \in 1..Len(calls) :
        (/\ calls[i].solo
         /\ EndsWith(calls[i].path.name, QUARANTINE_SUFFIX)
         /\ calls[i].path \in DOMAIN calls[i].before)
        => /\ calls[i].res = QUARANTINED
           /\ FileSet(calls[i].after) = FileSet(calls[i].before)
           /\ QuarantinedPath(calls[i].path) \notin DOMAIN calls[i].after

\* every call up to the i-th ran alone
Sequential(i) == \A j \in 1..i : calls[j].solo

Raced ==
    \E i, j \in 1..Len(calls) :
        /\ i # j
        /\ ~calls[i].solo /\ ~calls[j].solo
        /\ calls[i].path # calls[j].path
        /\ calls[i].res = QUARANTINED /\ calls[j].res = QUARANTINED

\* C10 as stated: when two quarantines of different files in one directory
\* overlap, the final .gitignore holds each rule, and the section header,
\* exactly once, under every interleaving of their reads and appends.
C10_RacePatchesOnce ==
    (Busy = {} /\ Len(calls) = 2 /\ Raced) =>
        /\ \A k \in 1..Len(rules) : Occurrences(ManifestOf(fs), rules[k]) = 1
        /\ Occurrences(ManifestOf(fs), <<HEADER>>) <= 1

(* ====================== properties of the watcher ===================== *)

\* C4: a created or modified file whose name ends with the quarantine suffix
\* is rejected by the gate: scan_file never reads it and no remediation run
\* is started for it, whatever it holds.
C4_QuarantinedNeverScanned ==
    pc["ctl"] \notin {"idle", "gate"} => ~EndsWith(cur.name, IGNORE_SUFFIX)

\* the event of a quarantined file that holds a secret has reached scan_file
C4_Witness ==
    /\ pc["ctl"] = "gate"
    /\ EndsWith(cur.name, IGNORE_SUFFIX)
    /\ cur \in DOMAIN fs
    /\ DetectThreat(fs[cur]) # ""

\* C5 as stated: every entry of the directive is attempted whatever became of
\* the earlier ones: when a run of registered tools ends, no entry after the
\* one last attempted is left.
C5_AllEntriesAttempted ==
    [][(/\ wf = "Executing" /\ wf' = "Done"
        /\ \A k \in 1..Len(tool_calls) : tool_calls[k].name \in tools_map)
       => idx >= Len(tool_calls)]_vars

\* the steps a workflow run takes; (Done, Idle) is trigger_agent returning to
\* the observer, after which no run exists
WfTransitions ==
    { <<"Idle", "Analyzing">>, <<"Analyzing", "Executing">>, <<"Analyzing", "Done">>,
      <<"Executing", "Done">>, <<"Done", "Idle">> }

\* C6: a run once started reaches Done with an outcome recorded, along
\* Idle -> Analyzing -> Executing -> Done or Analyzing -> Done only; nothing
\* leads back from Done into the run.
C6_RunReachesDone ==
    /\ [][wf' # wf => <<wf, wf'>> \in WfTransitions]_vars
    /\ [](wf = "Done" => analysis.kind \in {"Executed", "Agent Crash"})
    /\ (wf = "Analyzing" ~> wf = "Done")
    /\ (wf = "Executing" ~> wf = "Done")

\* a run that failed while executing has ended in Done with the failure recorded
C6_Witness ==
    /\ wf = "Done"
    /\ analysis.kind = "Agent Crash"
    /\ analysis.error # "oracle"

C8_UnknownToolContained ==
    [][(/\ pc["ctl"] = "execute"
        /\ idx <= Len(tool_calls)
        /\ tool_calls[idx].name \notin tools_map)
       => /\ pc'["ctl"] = "execute"
          /\ \/ idx' = idx /\ results' = results
             \/ idx' = idx + 1 /\ Len(results') = Len(results) + 1]_vars

\* C9 as stated: once the marker file of a path exists, every later event of
\* that path is rejected by the gate.
C9_QuarantinedPathRejected ==
    [][(pc["ctl"] = "gate" /\ QuarantinedPath(cur) \in DOMAIN fs)
       => pc'["ctl"] # "scan"]_vars

\* C9 amended: once the marker file of a path exists, every later event of
\* that path is rejected by the gate for as long as no file has been created
\* at the path again, so no further run is started for the quarantined file.
C9_AbsentPathRejected ==
    [][(/\ pc["ctl"] = "gate"
        /\ QuarantinedPath(cur) \in DOMAIN fs
        /\ cur \notin DOMAIN fs)
       => pc'["ctl"] \notin {"scan", "analyze"}]_vars

\* a late event of a path that a run has quarantined reaches the gate
C9_Witness ==
    /\ pc["ctl"] = "gate"
    /\ QuarantinedPath(cur) \in DOMAIN fs
    /\ cur \notin DOMAIN fs
    /\ wf = "Idle"
    /\ PathSuffix(cur.name) \in SAFE_EXTENSIONS

\* C11 as stated: when the file is deleted or moved away between
\* quarantine_file's existence check and its rename, so that the rename fails
\* for want of its source, the call returns "File not found." as it does for
\* a path absent at the check.
C11_VanishedSourceIsNotFound ==
    [][(/\ pc["ctl"] = "q_rename"
        /\ qpath["ctl"] \notin DOMAIN fs
        /\ dirWritable
        /\ pc'["ctl"] = "q_ret")
       => qres'["ctl"] = NOT_FOUND]_vars

\* C12 as stated: a remediation run does not block the consumption of
\* events: while the run for one path is in Analyzing or Executing, the
\* observer can take the pending event of another path to gate and scan it.
C12_ScanNotBlockedByRun ==
    \A p \in pending :
        (wf \in {"Analyzing", "Executing"} /\ p # cur) => ENABLED Dispatch(p)

(* ------------------- one event, any name, any content ----------------- *)

\* what re.findall can meet in a file: a match of one of PATTERNS, or text
\* that matches none
ContentTokens == {"AKIA20", "sk-32", "BEGIN PRIVATE KEY", "email", "text"}

\* the first 20000 characters of a file, as at most MaxContent tokens
Contents == UNION {[1..n -> ContentTokens] : n \in 0..MaxContent}

\* the paths an event can carry
ScanPaths ==
    { Path(ROOT, <<"a", ".env">>),
      Path(ROOT, <<"a", ".env", QUARANTINE_SUFFIX>>),
      Path(ROOT, <<REMEDIATION_PREFIX, "a", ".env", ".md">>),
      Path(ROOT, <<"my_", REMEDIATION_PREFIX, "notes", ".txt">>),
      Path(ROOT \o <<".git">>, <<"d", ".json">>),
      Path(ROOT, <<".git">>),
      Path(ROOT, <<"c", ".bin">>),
      Path(ROOT, <<"Dockerfile">>),
      Path(ROOT, GITIGNORE) }

\* the watch source has reported one path, which holds a file or no longer does
InitScan ==
    /\ \E p \in ScanPaths, c \in Contents, present \in BOOLEAN :
          /\ pending = {p}
          /\ fs = IF present THEN (p :> c) ELSE <<>>
    /\ dirWritable = TRUE
    /\ InitRest

\* scan_file on that event, up to the call of process_threat_event
NextScan ==
    \/ \E p \in pending : Dispatch(p)
    \/ Gate
    \/ Scan

ScanSpec == InitScan /\ [][NextScan]_vars

(* ================== properties of the signature engine ================ *)

\* len(matches) for the e-mail pattern
EmailCount(content) == Cardinality({k \in 1..Len(content) : content[k] = "email"})

\* the content holds a match of one of the three key patterns
HasKey(content) == Range(content) \cap {"AKIA20", "sk-32", "BEGIN PRIVATE KEY"} # {}

\* C13: the bulk e-mail signature fires only from three occurrences on: a
\* scan of content whose only matches are 0, 1 or 2 e-mail addresses starts
\* no run, and with 3 or more (and no key match) it yields "Mass PII (Emails)".
C13_BulkEmailThreshold ==
    [][(/\ pc["ctl"] = "scan" /\ pc'["ctl"] # "scan"
        /\ cur \in DOMAIN fs
        /\ ~HasKey(fs[cur]))
       => IF EmailCount(fs[cur]) >= 3
          THEN pc'["ctl"] = "analyze" /\ threat' = "Mass PII (Emails)" /\ wf' = "Analyzing"
          ELSE pc'["ctl"] = "idle" /\ threat' = "" /\ wf' = "Idle"]_vars

\* a file of exactly three e-mail addresses and no key has been detected
C13_Witness ==
    /\ pc["ctl"] = "analyze"
    /\ cur \in DOMAIN fs
    /\ ~HasKey(fs[cur])
    /\ EmailCount(fs[cur]) = 3
    /\ threat = "Mass PII (Emails)"

\* the label the fixed order gives: access key, secret key, private key
\* block, then three or more e-mail addresses
FirstLabel(content) ==
    IF "AKIA20" \in Range(content) THEN "AWS Access Key"
    ELSE IF "sk-32" \in Range(content) THEN "OpenAI Secret Key"
    ELSE IF "BEGIN PRIVATE KEY" \in Range(content) THEN "Private Key"
    ELSE IF EmailCount(content) >= 3 THEN "Mass PII (Emails)"
    ELSE ""

\* C14: a scan yields at most one label, that of the first signature in the
\* order AWS key, OpenAI key, private key, e-mails whose count clears its
\* threshold, so a key wins over three or more e-mail addresses; a run is
\* started only by the step that ends a scan, one run for that one label.
C14_FirstSignatureWins ==
    /\ [][(pc["ctl"] = "scan" /\ pc'["ctl"] # "scan" /\ cur \in DOMAIN fs)
          => /\ threat' = FirstLabel(fs[cur])
             /\ (pc'["ctl"] = "analyze") = (FirstLabel(fs[cur]) # "")
             /\ (pc'["ctl"] = "idle") = (FirstLabel(fs[cur]) = "")
             /\ HasKey(fs[cur]) => threat' \notin {"", "Mass PII (Emails)"}]_vars
    /\ [][(wf # "Analyzing" /\ wf' = "Analyzing")
          => pc["ctl"] = "scan" /\ pc'["ctl"] = "analyze" /\ cur' = cur]_vars

\* a file with a private key block and three e-mail addresses has been
\* detected, with one label
C14_Witness ==
    /\ pc["ctl"] = "analyze"
    /\ cur \in DOMAIN fs
    /\ "BEGIN PRIVATE KEY" \in Range(fs[cur])
    /\ EmailCount(fs[cur]) >= 3
    /\ threat = "Private Key"

(* --------------- one detection, no external interference -------------- *)

\* the file whose event is pending when watching begins
QuietInputs ==
    EnvInputs \cup
    { <<Path(ROOT, <<"keys", ".pem">>), <<"BEGIN PRIVATE KEY", "email", "email", "email">>>> }

\* a writable directory holds one file, written just before, and no
\* .gitignore or one of InitialManifests; its event has not been handled yet
InitQuiet ==
    /\ \E in \in QuietInputs, m \in InitialManifests \cup {<<"absent">>} :
          /\ pending = {in[1]}
          /\ fs = IF m = <<"absent">> THEN (in[1] :> in[2])
                  ELSE Put((in[1] :> in[2]), GitignorePath(in[1]), m)
    /\ dirWritable = TRUE
    /\ InitRest

\* the watcher alone: nothing else touches the tree
QuietSpec == InitQuiet /\ [][Controller]_vars

FairQuietSpec == QuietSpec /\ WF_vars(Controller)

(* ========================= end-to-end properties ====================== *)

\* the names of the three credential-key signatures
KeyLabels == {"AWS Access Key", "OpenAI Secret Key", "Private Key"}

\* the directive [quarantine_file(p), write_remediation_report(p, ...)]
QuarantineThenReport(p) ==
    << [name |-> "quarantine_file", file_path |-> p],
       [name |-> "write_remediation_report", file_path |-> p] >>

\* the run for p with label l has got that directive from the oracle
Directed(p, l) ==
    /\ wf = "Executing"
    /\ cur = p
    /\ threat = l
    /\ tool_calls = QuarantineThenReport(p)
    /\ idx = 1
    /\ pc["ctl"] = "execute"

\* the run is over: p is quarantined, reported and hidden from git
Remediated(p, l) ==
    /\ wf = "Done"
    /\ analysis = Executed(2)
    /\ p \notin DOMAIN fs
    /\ QuarantinedPath(p) \in DOMAIN fs
    /\ ReportPath(p) \in DOMAIN fs
    /\ Contains(fs[ReportPath(p)], <<l>>)
    /\ Contains(fs[ReportPath(p)], p.name \o <<QUARANTINE_SUFFIX>>)
    /\ GitignorePath(p) \in DOMAIN fs
    /\ \A k \in 1..Len(rules) : Contains(fs[GitignorePath(p)], rules[k])

RuleApplies(p, files) ==
    \/ EndsWith(p.name, IGNORE_SUFFIX)
    \/ p.name[1] = REMEDIATION_PREFIX
    \/ ".git" \in Range(p.parts) \/ p.name = <<".git">>
    \/ p \notin DOMAIN files
    \/ PathSuffix(p.name) \notin SAFE_EXTENSIONS

\* C17 as stated: the gate admits a file event if and only if none of the
\* five rules applies (quarantine suffix; REMEDIATION_ as a prefix of the
\* filename; a path segment equal to .git; the path does not exist; the
\* extension is not in the allow-list), and leaves the file tree as it was.
C17_AdmitsIffNoRule ==
    [][(pc["ctl"] = "gate" /\ pc'["ctl"] # "gate")
       => /\ (pc'["ctl"] = "scan") = ~RuleApplies(cur, fs)
          /\ fs' = fs
          /\ dirWritable' = dirWritable]_vars

\* what a run leaves behind: a quarantined file, a report, the .gitignore
IsArtifact(p) ==
    \/ EndsWith(p.name, QUARANTINE_SUFFIX)
    \/ p.name[1] = REMEDIATION_PREFIX
    \/ p.name = GITIGNORE

\* C18: no redetection loop. Every event a run gives rise to is that of a
\* quarantined file, a report or the .gitignore; the gate rejects each of
\* them, no run is ever started for one, and after a single detection the
\* watcher comes to rest with no event left to handle.
C18_NoRedetectionLoop ==
    /\ [][(wf \in {"Analyzing", "Executing"})
          => (\A p \in pending' \ pending : IsArtifact(p))]_vars
    /\ [][(pc["ctl"] = "gate" /\ pc'["ctl"] # "gate" /\ IsArtifact(cur))
          => pc'["ctl"] = "idle" /\ wf' = wf]_vars
    /\ [][(wf # "Analyzing" /\ wf' = "Analyzing") => ~IsArtifact(cur)]_vars
    /\ <>[](pending = {} /\ pc["ctl"] = "idle" /\ wf = "Idle")

\* a run has quarantined and reported a file and patched the .gitignore, and
\* the watcher has handled every event that followed
C18_Witness ==
    /\ pending = {}
    /\ pc["ctl"] = "idle"
    /\ wf = "Idle"
    /\ \E in \in QuietInputs :
          /\ QuarantinedPath(in[1]) \in DOMAIN fs
          /\ ReportPath(in[1]) \in DOMAIN fs
          /\ GitignorePath(in[1]) \in DOMAIN fs
          /\ Contains(fs[GitignorePath(in[1])], <<HEADER>>)

(* ======================== properties of the outcome =================== *)

\* C19 as stated: when execute_mitigation has gone through the directive, the
\* outcome holds a count equal to the number of entries (0 for an empty
\* directive, which ends in Done all the same) and the result strings of the
\* entries, in order, one per entry.
C19_OutcomeCarriesResults ==
    [][(/\ wf = "Executing" /\ wf' = "Done"
        /\ pc["ctl"] = "execute" /\ idx > Len(tool_calls))
       => /\ analysis'.kind = "Executed"
          /\ analysis'.n = Len(tool_calls)
          /\ Len(results) = Len(tool_calls)
          /\ "results" \in DOMAIN analysis'
          /\ analysis'.results = results]_vars

(* ================== frame of a quarantine that failed ================= *)

\* C20: a call of quarantine_file that does not rename the file (it returns
\* "File not found." or "Failed to move file: ...") leaves the .gitignore as
\* it was and creates no file; the .gitignore is written only by a call that
\* has renamed its file.
C20_NoRenameNoPatch ==
    /\ [](\A i \in 1..Len(calls) :
            (calls[i].solo /\ calls[i].res \in {NOT_FOUND, FAILED_MOVE})
               => calls[i].after = calls[i].before)
    /\ [][\A t \in Threads :
            (pc[t] \in {"q_check", "q_rename"} /\ pc'[t] = "q_ret")
               => (fs' = fs /\ qres'[t] \in {NOT_FOUND, FAILED_MOVE})]_vars
    /\ [][ManifestOf(fs') # ManifestOf(fs)
          => (\E t \in Threads : pc[t] = "q_patch" /\ pc'[t] = "q_ret")]_vars

\* a call in a read-only directory whose .gitignore lacks the rules has
\* failed to rename its file, and so has a call on a path that was gone
C20_Witness ==
    \E i, j \in 1..Len(calls) :
        /\ calls[i].solo /\ calls[i].res = FAILED_MOVE
        /\ calls[j].solo /\ calls[j].res = NOT_FOUND
        /\ MissingRules(ManifestOf(calls[i].before)) # <<>>

=============================================================================
